---------------------------- MODULE Spec2Model ----------------------------
(***************************************************************************)
(* A model of the peak classification, compensation and logging pipeline   *)
(* of gpib-spurious-emissions (analysis.py, generate_compensation.py) and   *)
(* of the instrument polling loops of hp8593em.py.                         *)
(*                                                                         *)
(* Frequencies are integers counted in units of 10 kHz (100 = 1 MHz), so   *)
(* that the 100 kHz tolerance floor is 10 units.  Powers and attenuations  *)
(* are exact rationals [n, d]; binary floating-point rounding is not       *)
(* modelled.  A CSV file is the sequence of rows csv.reader yields for it, *)
(* each row a sequence of cells, each cell a sequence of characters; every *)
(* row is taken to be newline-terminated.                                  *)
(***************************************************************************)
EXTENDS Integers, Sequences, FiniteSets, TLC

VARIABLES
    logExists,   \* os.path.exists(peak_report.csv)
    logRows,     \* the rows of peak_report.csv (<<>> when absent or zero-length)
    comp,        \* (comp_freqs, comp_dbs) as load_compensation_file returned them
    clock,       \* datetime.datetime.now(), one tick per append_peaks_to_csv call
    idxHist,     \* the measurement_index resolved by each call that wrote records
    last,        \* the last call: its operation, inputs, and the file it found
    sepPeaks,        \* separate_carrier_and_spurious: the peaks argument
    sepCarrierFreq,  \* separate_carrier_and_spurious: the carrier_freq argument
    sepResult,       \* separate_carrier_and_spurious: the pair of lists returned
    lookupTable,     \* get_compensation: (comp_freqs, comp_dbs)
    lookupFreq,      \* get_compensation: freq_hz
    lookupResult,    \* get_compensation: the value returned
    compFileExists,  \* os.path.exists(ext_att_compensation.csv)
    compFileLines,   \* the lines of ext_att_compensation.csv, each a row of cells
    merges,          \* number of update_compensation_file calls made so far
    lastMerge,       \* the last update_compensation_file call: inputs and file found
    loadResult,      \* load_compensation_file: what it returned for the file as it is
    start_freq,      \* generate_frequency_ranges: the start_freq argument
    end_freq,        \* generate_frequency_ranges: the end_freq argument
    current_freq,    \* generate_frequency_ranges: the loop variable
    ranges,          \* generate_frequency_ranges: the list built so far
    rangesPc,        \* generate_frequency_ranges: "call", "loop" or "returned"
    carrier_freq_hz, \* get_search_range: the argument
    searchResult,    \* get_search_range: the value returned
    waitTimeout,     \* _wait_for_measurement: the timeout argument, in seconds
    waitElapsed,     \* _wait_for_measurement: time.time() - start_time
    waitPc,          \* _wait_for_measurement: "loop", "returned" or "raised"
    waitResult,      \* _wait_for_measurement: the value returned
    waitReply,       \* the instrument's answer to the last SIGLEN? query
    waitPolledAt,    \* the elapsed time at which the last SIGLEN? query was started
    num_signals,     \* _fetch_signal_data: the num_signals argument
    fetchTimeout,    \* _fetch_signal_data: the timeout argument, in seconds
    fetchElapsed,    \* _fetch_signal_data: time.time() - start_time
    fetchPc,         \* _fetch_signal_data: "loop", "query" or "returned"
    fetchI,          \* _fetch_signal_data: i, the position being fetched
    signals,         \* _fetch_signal_data: the dict, key -> instrument position answered
    sigpos,          \* the position the instrument last accepted by SIGPOS (0: none)
    fetchFailedAt    \* the positions at which a VisaIOError has been raised

logVars == <<logExists, logRows, comp, clock, idxHist, last>>

sepVars == <<sepPeaks, sepCarrierFreq, sepResult>>

lookupVars == <<lookupTable, lookupFreq, lookupResult>>

mergeVars == <<compFileExists, compFileLines, merges, lastMerge, loadResult>>

rangeVars == <<start_freq, end_freq, current_freq, ranges, rangesPc>>

searchVars == <<carrier_freq_hz, searchResult>>

waitVars == <<waitTimeout, waitElapsed, waitPc, waitResult, waitReply, waitPolledAt>>

fetchVars == <<num_signals, fetchTimeout, fetchElapsed, fetchPc, fetchI, signals, sigpos,
               fetchFailedAt>>

vars == <<logVars, sepVars, lookupVars, mergeVars, rangeVars, searchVars, waitVars,
          fetchVars>>

---------------------------------------------------------------------------
(* Bounds *)

MaxCalls == 2
MaxPeaks == 2
MaxSepPeaks == 2
MaxKnots == 3
MaxMerges == 2
MaxNewPoints == 2

---------------------------------------------------------------------------
(* Arithmetic helpers *)

Abs(x) == IF x < 0 THEN -x ELSE x

MaxOf(S) == CHOOSE m \in S : \A y \in S : y <= m

RECURSIVE GCD(_, _)
GCD(a, b) == IF b = 0 THEN a ELSE GCD(b, a % b)

\* The rational n/d (d > 0) in lowest terms.
Rat(n, d) ==
    LET g == GCD(Abs(n), d)
    IN  [n |-> (IF n < 0 THEN -(Abs(n) \div g) ELSE n \div g), d |-> d \div g]

RatOfInt(i) == [n |-> i, d |-> 1]

RatAdd(a, b) == Rat(a.n * b.d + b.n * a.d, a.d * b.d)

RatSub(a, b) == Rat(a.n * b.d - b.n * a.d, a.d * b.d)

\* a * (p / q), q > 0
RatScale(a, p, q) == Rat(a.n * p, a.d * q)

RatLess(a, b) == a.n * b.d < b.n * a.d

RatLessEq(a, b) == a.n * b.d <= b.n * a.d

RatMax(a, b) == IF RatLess(a, b) THEN b ELSE a

IsPrefix(s, t) == Len(s) <= Len(t) /\ SubSeq(t, 1, Len(s)) = s

\* All sequences over S of length at most n.
SeqsUpTo(S, n) == UNION {[1..k -> S] : k \in 0..n}

---------------------------------------------------------------------------
(* Text: str() and int() of Python, character by character *)

Digits == <<"0", "1", "2", "3", "4", "5", "6", "7", "8", "9">>

IsDigit(c) == \E k \in 1..10 : Digits[k] = c

DigitVal(c) == (CHOOSE k \in 1..10 : Digits[k] = c) - 1

RECURSIVE NatToStr(_)
NatToStr(n) ==
    IF n < 10 THEN <<Digits[n + 1]>>
    ELSE NatToStr(n \div 10) \o <<Digits[(n % 10) + 1]>>

\* str(i) of a Python int
IntToStr(i) == IF i < 0 THEN <<"-">> \o NatToStr(-i) ELSE NatToStr(i)

\* the text written for a float value (exact, as numerator/denominator)
RatToStr(r) ==
    IF r.d = 1 THEN IntToStr(r.n) ELSE IntToStr(r.n) \o <<"/">> \o NatToStr(r.d)

RECURSIVE DigitsVal(_)
DigitsVal(s) ==
    IF s = <<>> THEN 0
    ELSE 10 * DigitsVal(SubSeq(s, 1, Len(s) - 1)) + DigitVal(s[Len(s)])

RECURSIVE Strip(_)
Strip(s) ==
    IF s = <<>> THEN s
    ELSE IF s[1] = " " THEN Strip(Tail(s))
    ELSE IF s[Len(s)] = " " THEN Strip(SubSeq(s, 1, Len(s) - 1))
    ELSE s

\* int(cell): surrounding blanks are dropped, one sign is allowed, the rest
\* must be one or more digits; anything else raises ValueError (ok = FALSE).
ParseInt(cell) ==
    LET s == Strip(cell)
        signed == s # <<>> /\ s[1] \in {"+", "-"}
        body == IF signed THEN Tail(s) ELSE s
        ok == body # <<>> /\ \A k \in 1..Len(body) : IsDigit(body[k])
    IN  [ok |-> ok,
         val |-> IF ~ok THEN 0
                 ELSE IF signed /\ s[1] = "-" THEN -DigitsVal(body)
                 ELSE DigitsVal(body)]

---------------------------------------------------------------------------
(* analysis.py: compensation lookup *)

\* A compensation table as the caller holds it: loaded = FALSE is the
\* (None, None) pair load_compensation_file returns when it fails.
NoCompensation == [loaded |-> FALSE, freqs |-> <<>>, dbs |-> <<>>]

Table(freqs, dbs) == [loaded |-> TRUE, freqs |-> freqs, dbs |-> dbs]

\* numpy's search: the last knot that is not above x (x is within the range)
BracketIndex(x, xp) == MaxOf({k \in 1..Len(xp) : xp[k] <= x})

InterpolateStep(x, xp, fp, j) == RatOfInt(fp[j])

\* fp[j] + slope * (x - xp[j]) with slope = (fp[j+1] - fp[j]) / (xp[j+1] - xp[j])
Interpolate(x, xp, fp, j) ==
    RatAdd(RatScale(RatOfInt(fp[j + 1] - fp[j]), x - xp[j], xp[j + 1] - xp[j]),
           RatOfInt(fp[j]))

\* np.interp(x, xp, fp) for one x and a non-empty xp
Interp(x, xp, fp) ==
    LET n == Len(xp)
    IN  IF x > xp[n] THEN RatOfInt(fp[n])
        ELSE IF x < xp[1] THEN RatOfInt(fp[1])
        ELSE LET j == BracketIndex(x, xp)
             IN  IF j = n THEN RatOfInt(fp[j])
                 ELSE IF xp[j] = x THEN RatOfInt(fp[j])
                 ELSE Interpolate(x, xp, fp, j)

get_compensation(freq_hz, c) ==
    IF ~c.loaded \/ Len(c.freqs) = 0 THEN RatOfInt(0)
    ELSE Interp(freq_hz, c.freqs, c.dbs)

---------------------------------------------------------------------------
(* analysis.py: the measurement log *)

MeasurementIndexName == <<"measurement_index">>

fieldnames ==
    << MeasurementIndexName, <<"timestamp">>, <<"peak_type">>, <<"frequency_hz">>,
       <<"measured_power_dbm">>, <<"compensation_db">>, <<"corrected_power_dbm">> >>

\* header.index(name): the first column holding name, 0 for ValueError
HeaderIndex(header, name) ==
    LET S == {k \in 1..Len(header) : header[k] = name}
    IN  IF S = {} THEN 0 ELSE CHOOSE k \in S : \A y \in S : k <= y

\* One pass of the loop over the data rows, keeping only the last index seen.
ScanRowLast(row, idx_col, max_index) ==
    IF row = <<>> THEN max_index
    ELSE IF Len(row) < idx_col THEN max_index
    ELSE LET p == ParseInt(row[idx_col])
         IN  IF ~p.ok THEN max_index ELSE p.val

\* One pass of the loop over the data rows: an empty row is skipped, a row
\* without the cell (IndexError) or with a cell int() rejects (ValueError)
\* is skipped, otherwise the running maximum is raised.
ScanRow(row, idx_col, max_index) ==
    IF row = <<>> THEN max_index
    ELSE IF Len(row) < idx_col THEN max_index
    ELSE LET p == ParseInt(row[idx_col])
         IN  IF ~p.ok THEN max_index
             ELSE IF p.val > max_index THEN p.val ELSE max_index

RECURSIVE ScanRows(_, _, _, _)
ScanRows(rows, k, idx_col, max_index) ==
    IF k > Len(rows) THEN max_index
    ELSE ScanRows(rows, k + 1, idx_col, ScanRow(rows[k], idx_col, max_index))

get_next_measurement_index(exists, rows) ==
    IF ~exists THEN 0
    ELSE IF rows = <<>> THEN 0
    ELSE LET idx_col == HeaderIndex(rows[1], MeasurementIndexName)
         IN  IF idx_col = 0 THEN 0
             ELSE ScanRows(rows, 2, idx_col, -1) + 1

CorrectedPowerAdded(power, comp_db) == RatAdd(RatOfInt(power), comp_db)

\* corrected_power = power - comp_db
CorrectedPower(power, comp_db) == RatSub(RatOfInt(power), comp_db)

\* datetime.isoformat(): text that starts with the date, never an integer
IsoFormat(timestamp) == <<"2", "0", "2", "5", "-">> \o IntToStr(timestamp)

\* The row csv.DictWriter writes for one record, in fieldnames order.
RecordRow(measurement_index, timestamp, peak_type, freq, power, comp_db, corrected) ==
    << IntToStr(measurement_index), IsoFormat(timestamp), <<peak_type>>,
       IntToStr(freq), IntToStr(power), RatToStr(comp_db), RatToStr(corrected) >>

\* The loop over one group of peaks, appending one record per peak.
RECURSIVE PeakRows(_, _, _, _, _, _)
PeakRows(peaks, k, peak_type, measurement_index, timestamp, c) ==
    IF k > Len(peaks) THEN <<>>
    ELSE LET freq == peaks[k][1]
             power == peaks[k][2]
             comp_db == get_compensation(freq, c)
         IN  <<RecordRow(measurement_index, timestamp, peak_type, freq, power,
                         comp_db, CorrectedPower(power, comp_db))>>
             \o PeakRows(peaks, k + 1, peak_type, measurement_index, timestamp, c)

NothingToWriteNever(rows_to_write) == FALSE

\* "if not rows_to_write: return"
NothingToWrite(rows_to_write) == rows_to_write = <<>>

OpenForWrite(rows) == <<>>

\* open(filename, 'a'): what the file holds is kept, writes go to its end
OpenForAppend(rows) == rows

WriteHeaderAlways(file_exists) == TRUE

\* "if not file_exists: writer.writeheader()"
WriteHeader(file_exists) == ~file_exists

---------------------------------------------------------------------------
(* The measurement log: inputs *)

\* Peaks (frequency, power) handed to append_peaks_to_csv: those near the
\* carrier go to carrier_peaks, the others to spurious_peaks.
LogCarrierPeaks == {<<125, -20>>, <<130, -25>>}

LogSpuriousPeaks == {<<300, -61>>}

\* The table {(1e6, -3), (2e6, -5)}.
LogTable == Table(<<100, 200>>, <<-3, -5>>)

File(exists, rows) == [exists |-> exists, rows |-> rows]

\* A record of an earlier session with the given index cell.
OldRecord(index_cell) ==
    <<index_cell, <<"t">>, <<"carrier">>, <<"1">>, <<"2">>, <<"0">>, <<"2">>>>

\* Log files found on disk: absent, zero-length, written by this program,
\* and edited by hand (malformed, short and empty rows, other headers).
LogFiles ==
    { File(FALSE, <<>>),
      File(TRUE, <<>>),
      File(TRUE, <<fieldnames>>),
      File(TRUE, <<fieldnames, OldRecord(<<"5">>), OldRecord(<<"0">>),
                   OldRecord(<<"x">>), OldRecord(<<"2">>)>>),
      File(TRUE, <<fieldnames, OldRecord(<<" ", "1", "1", " ">>), <<>>,
                   OldRecord(<<"5", "0", ".", "0">>), OldRecord(<<"+", "4">>)>>),
      File(TRUE, <<fieldnames, OldRecord(<<"-", "3">>)>>),
      File(TRUE, <<fieldnames, OldRecord(<<>>), <<>>, OldRecord(<<"n", "a">>)>>),
      File(TRUE, << <<<<"timestamp">>, MeasurementIndexName>>,
                    <<<<"t">>, <<"4">>>>, <<<<"t">>>>, <<<<"t">>, <<"9">>, <<"1">>>> >>),
      File(TRUE, << <<<<"Frequency (Hz)">>, <<"Power (dBm)">>>>, <<<<"1">>, <<"3">>>> >>),
      File(TRUE, << <<>>, OldRecord(<<"3">>) >>) }

NoCall ==
    [op |-> "none", existed |-> FALSE, before |-> <<>>, carrier |-> <<>>,
     spurious |-> <<>>, index |-> 0, timestamp |-> 0]

---------------------------------------------------------------------------
(* The measurement log: operations *)

NoResult == [done |-> FALSE, carrier |-> <<>>, spurious |-> <<>>]

NoLookup == [done |-> FALSE, value |-> RatOfInt(0)]

\* The parts of the state a specification does not exercise.
IdleLog ==
    /\ logExists = FALSE
    /\ logRows = <<>>
    /\ comp = NoCompensation
    /\ clock = 0
    /\ idxHist = <<>>
    /\ last = NoCall

IdleSep ==
    /\ sepPeaks = <<>>
    /\ sepCarrierFreq = 0
    /\ sepResult = NoResult

IdleLookup ==
    /\ lookupTable = NoCompensation
    /\ lookupFreq = 0
    /\ lookupResult = NoLookup

NoMerge ==
    [op |-> "none", raised |-> FALSE, existed |-> FALSE, before |-> <<>>,
     new_points |-> <<>>, prev |-> <<>>]

NoLoad == [done |-> FALSE, table |-> NoCompensation]

IdleMerge ==
    /\ compFileExists = FALSE
    /\ compFileLines = <<>>
    /\ merges = 0
    /\ lastMerge = NoMerge
    /\ loadResult = NoLoad

IdleRanges ==
    /\ start_freq = 0
    /\ end_freq = 0
    /\ current_freq = 0
    /\ ranges = <<>>
    /\ rangesPc = "returned"

NoSearch == [done |-> FALSE, value |-> 0]

IdleSearch ==
    /\ carrier_freq_hz = 0
    /\ searchResult = NoSearch

NoReply == [kind |-> "none", count |-> 0]

IdleWait ==
    /\ waitTimeout = 0
    /\ waitElapsed = 0
    /\ waitPc = "returned"
    /\ waitResult = 0
    /\ waitReply = NoReply
    /\ waitPolledAt = -1

IdleFetch ==
    /\ num_signals = 0
    /\ fetchTimeout = 0
    /\ fetchElapsed = 0
    /\ fetchPc = "returned"
    /\ fetchI = 1
    /\ signals = <<>>
    /\ sigpos = 0
    /\ fetchFailedAt = {}

InitLog ==
    /\ \E f \in LogFiles : logExists = f.exists /\ logRows = f.rows
    /\ comp \in {LogTable} \cup (IF logExists THEN {} ELSE {NoCompensation})
    /\ clock = 0
    /\ idxHist = <<>>
    /\ last = NoCall
    /\ IdleSep
    /\ IdleLookup
    /\ IdleMerge
    /\ IdleRanges
    /\ IdleSearch
    /\ IdleWait
    /\ IdleFetch

\* append_peaks_to_csv(carrier_peaks, spurious_peaks, comp_freqs, comp_dbs)
\* with measurement_index and timestamp left to their defaults, as
\* spectrum_analyzer.py calls it: the index is resolved by
\* get_next_measurement_index on the log as found.
AppendPeaksToCsv ==
    \E carrier_peaks \in SeqsUpTo(LogCarrierPeaks, MaxPeaks),
       spurious_peaks \in SeqsUpTo(LogSpuriousPeaks, MaxPeaks) :
        /\ Len(carrier_peaks) + Len(spurious_peaks) <= MaxPeaks
        /\ clock < MaxCalls
        /\ LET measurement_index == get_next_measurement_index(logExists, logRows)
               timestamp == clock
               rows_to_write ==
                   PeakRows(carrier_peaks, 1, "carrier", measurement_index, timestamp, comp)
                   \o PeakRows(spurious_peaks, 1, "spurious", measurement_index, timestamp, comp)
               file_exists == logExists
           IN  /\ IF NothingToWrite(rows_to_write)
                  THEN UNCHANGED <<logExists, logRows, idxHist>>
                  ELSE /\ logExists' = TRUE
                       /\ logRows' = OpenForAppend(logRows)
                                     \o (IF WriteHeader(file_exists) THEN <<fieldnames>> ELSE <<>>)
                                     \o rows_to_write
                       /\ idxHist' = Append(idxHist, measurement_index)
               /\ last' = [op |-> "append", existed |-> logExists, before |-> logRows,
                           carrier |-> carrier_peaks, spurious |-> spurious_peaks,
                           index |-> measurement_index, timestamp |-> timestamp]
        /\ clock' = clock + 1
        /\ UNCHANGED comp
        /\ UNCHANGED <<sepVars, lookupVars, mergeVars>>
        /\ UNCHANGED <<rangeVars, searchVars, waitVars, fetchVars>>

NextLog == AppendPeaksToCsv

SpecLog == InitLog /\ [][NextLog]_vars

---------------------------------------------------------------------------
(* The measurement log: properties *)

\* The last call was an append_peaks_to_csv that had records to write.
WroteRecords == last.op = "append" /\ Len(last.carrier) + Len(last.spurious) > 0

\* The integers found in column col of the data rows (the rows after the header).
ValidIndices(rows, col) ==
    { ParseInt(rows[k][col]).val :
        k \in {i \in 2..Len(rows) : /\ rows[i] # <<>>
                                    /\ Len(rows[i]) >= col
                                    /\ ParseInt(rows[i][col]).ok} }

\* The measurement_index values of the records a log holds, read in the
\* column its header names.
RecordedIndices(rows) ==
    IF rows = <<>> \/ HeaderIndex(rows[1], MeasurementIndexName) = 0 THEN {}
    ELSE ValidIndices(rows, HeaderIndex(rows[1], MeasurementIndexName))

\* C1: for any sequence of append_peaks_to_csv calls that leave
\* measurement_index unspecified, from an absent or any existing log (also a
\* zero-length one), the index resolved by a call that writes records is
\* strictly greater than the index of every record already in the log: the
\* records the log held at the start and the records earlier calls wrote.
C1_ResolvedIndexIsFresh ==
    WroteRecords =>
        /\ \A i \in RecordedIndices(last.before) : i < last.index
        /\ \A k \in 1..(Len(idxHist) - 1) : idxHist[k] < last.index

\* What get_next_measurement_index is said to return.
ClaimedNextIndex(exists, rows) ==
    IF ~exists \/ rows = <<>> THEN 0
    ELSE IF HeaderIndex(rows[1], MeasurementIndexName) = 0 THEN 0
    ELSE LET S == ValidIndices(rows, HeaderIndex(rows[1], MeasurementIndexName))
         IN  IF S = {} THEN 0 ELSE MaxOf(S) + 1

C3_AppendOnly ==
    [][(logExists => logExists') /\ IsPrefix(logRows, logRows')]_vars

C3_Witness ==
    /\ WroteRecords
    /\ last.existed
    /\ Len(last.before) > 1
    /\ Len(logRows) > Len(last.before)

\* The last call wrote the header row as the first thing it wrote.
HeaderWritten ==
    /\ Len(logRows) > Len(last.before)
    /\ logRows[Len(last.before) + 1] = fieldnames

\* C4 as stated: append_peaks_to_csv writes the header row if and only if
\* the log file did not exist before the call.
C4_HeaderIffAbsent ==
    last.op = "append" => (HeaderWritten <=> ~last.existed)

\* C4 as amended: a call given at least one peak writes the header row if
\* and only if the log file did not exist before the call, and then writes
\* only record rows; a call given no peak writes no header.
C4_HeaderIffCreated ==
    last.op = "append" =>
        /\ WroteRecords => (HeaderWritten <=> ~last.existed)
        /\ ~WroteRecords => ~HeaderWritten
        /\ \A k \in (Len(last.before) + 2)..Len(logRows) : logRows[k] # fieldnames
        /\ last.existed /\ Len(logRows) > Len(last.before)
               => logRows[Len(last.before) + 1] # fieldnames

\* The call creates the log: the header row, then the records.
C4_Witness ==
    /\ WroteRecords
    /\ ~last.existed
    /\ HeaderWritten
    /\ Len(logRows) >= 2

\* C5: when both peak lists are empty append_peaks_to_csv leaves the file
\* system alone: an absent log stays absent, an existing log keeps its
\* exact content.
C5_EmptyIsNoOp ==
    (last.op = "append" /\ last.carrier = <<>> /\ last.spurious = <<>>) =>
        /\ logExists = last.existed
        /\ logRows = last.before

C5_Witness ==
    /\ last.op = "append"
    /\ last.carrier = <<>>
    /\ last.spurious = <<>>
    /\ ~last.existed
    /\ ~logExists

\* The records the last call appended (after the header, if it wrote one).
NewRecords ==
    SubSeq(logRows, Len(last.before) + (IF last.existed THEN 0 ELSE 1) + 1, Len(logRows))

\* The row is the record of `peak` with the given type, index and timestamp.
IsRecordOf(row, peak_type, peak, index, timestamp) ==
    LET lookup == get_compensation(peak[1], comp)
    IN  /\ Len(row) = 7
        /\ ParseInt(row[1]) = [ok |-> TRUE, val |-> index]
        /\ row[2] = <<"2", "0", "2", "5", "-">> \o IntToStr(timestamp)
        /\ row[3] = <<peak_type>>
        /\ ParseInt(row[4]) = [ok |-> TRUE, val |-> peak[1]]
        /\ ParseInt(row[5]) = [ok |-> TRUE, val |-> peak[2]]
        /\ row[6] = RatToStr(lookup)
        /\ row[7] = RatToStr(Rat(peak[2] * lookup.d - lookup.n, lookup.d))

\* C6: one call with n carrier and m spurious peaks appends exactly n + m
\* records, the carrier records in input order and then the spurious ones,
\* all with the same measurement_index and timestamp, each with its peak's
\* type, frequency and power, compensation_db = lookup(frequency) and
\* corrected_power_dbm = measured_power_dbm - compensation_db.
C6_RecordsWritten ==
    WroteRecords =>
        LET n == Len(last.carrier)
            m == Len(last.spurious)
        IN  /\ Len(NewRecords) = n + m
            /\ \A k \in 1..n :
                   IsRecordOf(NewRecords[k], "carrier", last.carrier[k],
                              last.index, last.timestamp)
            /\ \A k \in 1..m :
                   IsRecordOf(NewRecords[n + k], "spurious", last.spurious[k],
                              last.index, last.timestamp)

C6_Witness ==
    /\ WroteRecords
    /\ comp.loaded
    /\ Len(last.carrier) = 1
    /\ Len(last.spurious) = 1
    /\ get_compensation(last.carrier[1][1], comp).d = 2
    /\ Len(NewRecords) = 2

---------------------------------------------------------------------------
(* analysis.py: separate_carrier_and_spurious *)

\* 100e3 Hz, in units of 10 kHz
ToleranceFloor == 10

\* carrier_freq * 0.01 is carrier_freq / ToleranceDivisor
ToleranceDivisor == 100

\* tolerance = max(carrier_freq * 0.01, 100e3)
Tolerance(carrier_freq) ==
    RatMax(Rat(carrier_freq, ToleranceDivisor), RatOfInt(ToleranceFloor))

WithinToleranceInclusive(freq, carrier_freq) ==
    RatLessEq(RatOfInt(Abs(freq - carrier_freq)), Tolerance(carrier_freq))

\* abs(freq - carrier_freq) < tolerance
WithinTolerance(freq, carrier_freq) ==
    RatLess(RatOfInt(Abs(freq - carrier_freq)), Tolerance(carrier_freq))

KeepLatestPeak(peak_list, peak) == <<peak>>

\* carrier_peaks.append((freq, power)) and spurious_peaks.append((freq, power))
AppendPeak(peak_list, peak) == Append(peak_list, peak)

\* The loop over peaks from position k on, with the two lists built so far.
RECURSIVE SeparateFrom(_, _, _, _, _)
SeparateFrom(peaks, k, carrier_freq, carrier_peaks, spurious_peaks) ==
    IF k > Len(peaks) THEN [carrier |-> carrier_peaks, spurious |-> spurious_peaks]
    ELSE IF WithinTolerance(peaks[k][1], carrier_freq)
         THEN SeparateFrom(peaks, k + 1, carrier_freq,
                           AppendPeak(carrier_peaks, peaks[k]), spurious_peaks)
         ELSE SeparateFrom(peaks, k + 1, carrier_freq,
                           carrier_peaks, AppendPeak(spurious_peaks, peaks[k]))

separate_carrier_and_spurious(peaks, carrier_freq) ==
    SeparateFrom(peaks, 1, carrier_freq, <<>>, <<>>)

\* Carrier frequencies: 5 MHz and 10 MHz (the 100 kHz floor decides, at
\* 10 MHz both terms are equal), 10.5 MHz and 50 MHz (1% decides).
SepCarriers == {500, 1000, 1050, 5000}

\* Peak frequencies as offsets from the carrier: on it, and at and next to
\* carrier +- 100 kHz and carrier +- 500 kHz.
SepOffsets == {-50, -49, -10, 0, 9, 10, 11, 50}

SepPowers == {-30, -70}

InitSep ==
    /\ sepCarrierFreq \in SepCarriers
    /\ \E offs \in SeqsUpTo(SepOffsets \X SepPowers, MaxSepPeaks) :
           sepPeaks = [k \in 1..Len(offs) |-> <<sepCarrierFreq + offs[k][1], offs[k][2]>>]
    /\ sepResult = NoResult
    /\ IdleLog
    /\ IdleLookup
    /\ IdleMerge
    /\ IdleRanges
    /\ IdleSearch
    /\ IdleWait
    /\ IdleFetch

Separate ==
    /\ ~sepResult.done
    /\ LET r == separate_carrier_and_spurious(sepPeaks, sepCarrierFreq)
       IN  sepResult' = [done |-> TRUE, carrier |-> r.carrier, spurious |-> r.spurious]
    /\ UNCHANGED <<sepPeaks, sepCarrierFreq, logVars, lookupVars, mergeVars>>
    /\ UNCHANGED <<rangeVars, searchVars, waitVars, fetchVars>>

NextSep == Separate

SpecSep == InitSep /\ [][NextSep]_vars

\* The elements of s at the positions in P, in the order of s.
RECURSIVE Pick(_, _, _)
Pick(s, P, k) ==
    IF k > Len(s) THEN <<>>
    ELSE (IF k \in P THEN <<s[k]>> ELSE <<>>) \o Pick(s, P, k + 1)

\* C7: separate_carrier_and_spurious partitions its input without loss: the
\* input positions split into two sets, the carrier list is the input at
\* the positions of one and the spurious list the input at the positions of
\* the other, both in input order; so every peak is in exactly one list and
\* len(carrier) + len(spurious) = len(input).
C7_Partition ==
    sepResult.done =>
        /\ Len(sepResult.carrier) + Len(sepResult.spurious) = Len(sepPeaks)
        /\ \E P \in SUBSET (1..Len(sepPeaks)) :
               /\ sepResult.carrier = Pick(sepPeaks, P, 1)
               /\ sepResult.spurious = Pick(sepPeaks, (1..Len(sepPeaks)) \ P, 1)

C7_Witness ==
    /\ sepResult.done
    /\ Len(sepResult.carrier) = 2
    /\ sepResult.carrier[1] # sepResult.carrier[2]
    /\ sepResult.carrier = sepPeaks

\* C8: with tolerance = max(carrierFreq * 0.01, 100 kHz) a peak is in the
\* carrier group if and only if abs(freq - carrierFreq) < tolerance; the
\* bound is exclusive, so a peak at carrierFreq +- tolerance is spurious.
\* (100 * |f - c| < max(c, 100 * 100 kHz) states it without division.)
C8_ExclusiveTolerance ==
    sepResult.done =>
        \A k \in 1..Len(sepPeaks) :
            LET f == sepPeaks[k][1]
                c == sepCarrierFreq
                floor100 == 1000
                bound == IF c > floor100 THEN c ELSE floor100
                near == 100 * Abs(f - c) < bound
                inCarrier == \E i \in 1..Len(sepResult.carrier) : sepResult.carrier[i] = sepPeaks[k]
                inSpurious == \E i \in 1..Len(sepResult.spurious) : sepResult.spurious[i] = sepPeaks[k]
            IN  /\ near <=> inCarrier
                /\ ~near <=> inSpurious

\* Peaks exactly at carrier - tolerance and carrier + tolerance (50 MHz
\* carrier, 500 kHz tolerance): both are spurious.
C8_Witness ==
    /\ sepResult.done
    /\ sepCarrierFreq = 5000
    /\ Len(sepPeaks) = 2
    /\ sepPeaks[1][1] = 4950
    /\ sepPeaks[2][1] = 5050
    /\ sepResult.carrier = <<>>
    /\ sepResult.spurious = sepPeaks

---------------------------------------------------------------------------
(* analysis.py: get_compensation on its own *)

\* Knot frequencies (1, 1.5, 2 and 3 MHz) and attenuations in dB.
KnotFreqs == {100, 150, 200, 300}

KnotDbs == {-5, -3, 0}

\* Frequencies looked up: below, on, between and above the knots.
LookupFreqs == {50, 100, 125, 150, 160, 200, 250, 300, 350}

IsAscending(xp) == \A i \in 1..(Len(xp) - 1) : xp[i] <= xp[i + 1]

\* Tables sorted ascending by frequency (equal frequencies may repeat, as
\* update_compensation_file can persist them), the empty table, and none.
LookupTables ==
    {NoCompensation} \cup
    { Table(xp, fp) :
        <<xp, fp>> \in { t \in UNION { [1..k -> KnotFreqs] \X [1..k -> KnotDbs] : k \in 0..MaxKnots } :
                           IsAscending(t[1]) } }

InitLookup ==
    /\ lookupTable \in LookupTables
    /\ lookupFreq \in LookupFreqs
    /\ lookupResult = NoLookup
    /\ IdleLog
    /\ IdleSep
    /\ IdleMerge
    /\ IdleRanges
    /\ IdleSearch
    /\ IdleWait
    /\ IdleFetch

GetCompensation ==
    /\ ~lookupResult.done
    /\ lookupResult' = [done |-> TRUE, value |-> get_compensation(lookupFreq, lookupTable)]
    /\ UNCHANGED <<lookupTable, lookupFreq, logVars, sepVars, mergeVars>>
    /\ UNCHANGED <<rangeVars, searchVars, waitVars, fetchVars>>

NextLookup == GetCompensation

SpecLookup == InitLookup /\ [][NextLookup]_vars

\* C9: get_compensation returns 0.0 when the table is absent or empty;
\* otherwise, for a table sorted ascending by frequency, it returns the
\* table's attenuation at every knot frequency (where a frequency repeats,
\* one of its attenuations), between two adjacent knots the value on the
\* straight line through them, below the range the first knot's value and
\* above it the last knot's value.
C9_Lookup ==
    lookupResult.done =>
        LET xp == lookupTable.freqs
            fp == lookupTable.dbs
            n == Len(xp)
            x == lookupFreq
            v == lookupResult.value
        IN  IF ~lookupTable.loaded \/ n = 0 THEN v = RatOfInt(0)
            ELSE /\ x < xp[1] => v = RatOfInt(fp[1])
                 /\ x > xp[n] => v = RatOfInt(fp[n])
                 /\ (\E k \in 1..n : xp[k] = x)
                        => \E k \in 1..n : xp[k] = x /\ v = RatOfInt(fp[k])
                 /\ \A j \in 1..(n - 1) :
                        (xp[j] < x /\ x < xp[j + 1]) =>
                            v.n * (xp[j + 1] - xp[j]) =
                                v.d * (fp[j] * (xp[j + 1] - xp[j])
                                       + (fp[j + 1] - fp[j]) * (x - xp[j]))

\* The spec's example: table {(1e6, -3), (2e6, -5)} gives -4 at 1.5e6.
C9_Witness ==
    /\ lookupResult.done
    /\ lookupTable = Table(<<100, 200>>, <<-3, -5>>)
    /\ lookupFreq = 150
    /\ lookupResult.value = RatOfInt(-4)

---------------------------------------------------------------------------
(* generate_compensation.py: update_compensation_file *)

\* "# Frequency (Hz), Attenuation (dB)"
CommentLine == << <<"#", " Frequency (Hz)">>, <<" Attenuation (dB)">> >>

\* A header row as the interface description gives it.
HeaderLine == << <<"frequency_hz">>, <<"attenuation_db">> >>

\* df.to_csv(f, index=False, header=False): one line per point
PointLine(point) == <<IntToStr(point[1]), IntToStr(point[2])>>

\* comment='#': a line starting with '#' is skipped, as an empty line is
IsSkippedLine(line) == line = <<>> \/ (line[1] # <<>> /\ line[1][1] = "#")

IsContentLine(line) == ~IsSkippedLine(line)

ParsePoint(line) == <<ParseInt(line[1]).val, ParseInt(line[2]).val>>

ParsePoints(content) == [k \in 1..Len(content) |-> ParsePoint(content[k])]

\* header=0 with names given: the first line that is not skipped is taken
\* as the header row and replaced by names; the data are the lines after it
DropHeaderRow(content) == Tail(content)

\* pd.read_csv(filename, header=0, names=['frequency', 'attenuation'], comment='#')
\* raises EmptyDataError when no line is left to be the header.
read_csv(lines) ==
    LET content == SelectSeq(lines, IsContentLine)
    IN  IF content = <<>> THEN [raised |-> TRUE, df |-> <<>>]
        ELSE [raised |-> FALSE, df |-> ParsePoints(DropHeaderRow(content))]

\* freq * 0.9 and freq * 1.1 are freq * BandLow / BandScale and freq * BandHigh / BandScale
BandLow == 9

BandHigh == 11

BandScale == 10

\* (df['frequency'] >= freq * 0.9) & (df['frequency'] <= freq * 1.1)
InBand(frequency, freq) ==
    /\ BandScale * frequency >= BandLow * freq
    /\ BandScale * frequency <= BandHigh * freq

KeepAll(point, freq) == TRUE

\* the rows the mask keeps for one new frequency
OutsideBand(point, freq) == ~InBand(point[1], freq)

RECURSIVE FilterOutside(_, _, _)
FilterOutside(df, freq, k) ==
    IF k > Len(df) THEN <<>>
    ELSE (IF OutsideBand(df[k], freq) THEN <<df[k]>> ELSE <<>>)
         \o FilterOutside(df, freq, k + 1)

EvictNothing(df, new_points, k) == df

\* "for freq, att in new_points: df = df[~(...)]"
RECURSIVE Evict(_, _, _)
Evict(df, new_points, k) ==
    IF k > Len(new_points) THEN df
    ELSE Evict(FilterOutside(df, new_points[k][1], 1), new_points, k + 1)

\* df.sort_values(by='frequency'): every ascending order of the rows at
\* the positions I (the default sort is not stable, so rows of equal
\* frequency may come out in any order).
RECURSIVE SortedOrders(_, _)
SortedOrders(df, I) ==
    IF I = {} THEN {<<>>}
    ELSE LET firsts == {i \in I : \A j \in I : df[i][1] <= df[j][1]}
         IN  UNION { {<<df[i]>> \o rest : rest \in SortedOrders(df, I \ {i})} : i \in firsts }

KeepOrder(df) == {df}

sort_values(df) == SortedOrders(df, 1..Len(df))

\* skiprows=1: the first line of the file is dropped, whatever it holds
SkipRows(lines) == IF lines = <<>> THEN <<>> ELSE Tail(lines)

\* float(cell) for every cell of the row, and as many cells as the first row
IsNumericRow(row, first) ==
    /\ Len(row) = Len(first)
    /\ \A c \in 1..Len(row) : ParseInt(row[c]).ok

\* np.loadtxt(filename, delimiter=',', skiprows=1): after the skipped line,
\* comment and empty lines are ignored and every other line is a row of
\* numbers (ValueError otherwise).  The array is squeezed: it has two
\* dimensions only when there are at least two rows of at least two columns;
\* one row gives a one-dimensional array of its cells, no row an empty one.
loadtxt(lines) ==
    LET content == SelectSeq(SkipRows(lines), IsContentLine)
        ok == \A k \in 1..Len(content) : IsNumericRow(content[k], content[1])
    IN  [raised |-> ~ok,
         ndim |-> IF ok /\ Len(content) >= 2 /\ Len(content[1]) >= 2 THEN 2 ELSE 1,
         rows |-> IF ok THEN [k \in 1..Len(content) |->
                                 [c \in 1..Len(content[k]) |-> ParseInt(content[k][c]).val]]
                  ELSE <<>>]

\* load_compensation_file(filename): (None, None) when the file is absent
\* or anything raises, data[:, 0] raising IndexError on an array that has
\* not two dimensions, else the two columns.
load_compensation_file(exists, lines) ==
    IF ~exists THEN NoCompensation
    ELSE LET data == loadtxt(lines)
         IN  IF data.raised \/ data.ndim # 2 THEN NoCompensation
             ELSE Table([k \in 1..Len(data.rows) |-> data.rows[k][1]],
                        [k \in 1..Len(data.rows) |-> data.rows[k][2]])

\* Frequencies of measured points: 1 MHz and 1.11 MHz.  1 MHz lies in the
\* band of 1.11 MHz, 1.11 MHz lies outside the band [0.9, 1.1] MHz of 1 MHz.
MergeFreqs == {100, 111}

\* The attenuation measured in one run.
MergeDbs == {1, 2}

\* The compensation file found at the start: absent, zero-length, written
\* by hand with a header row, or as update_compensation_file writes it.
CompFiles ==
    { File(FALSE, <<>>),
      File(TRUE, <<>>),
      File(TRUE, <<HeaderLine, PointLine(<<90, 3>>), PointLine(<<111, 4>>),
                   PointLine(<<300, 5>>)>>),
      File(TRUE, <<CommentLine, PointLine(<<80, 3>>), PointLine(<<110, 4>>),
                   PointLine(<<111, 5>>)>>) }

InitMerge ==
    /\ \E f \in CompFiles : compFileExists = f.exists /\ compFileLines = f.rows
    /\ merges = 0
    /\ lastMerge = NoMerge
    /\ loadResult = NoLoad
    /\ IdleLog
    /\ IdleSep
    /\ IdleLookup
    /\ IdleRanges
    /\ IdleSearch
    /\ IdleWait
    /\ IdleFetch

\* main(): "if all_compensation_points: update_compensation_file(...)",
\* the whole of update_compensation_file included.
UpdateCompensationFile ==
    \E freqs \in SeqsUpTo(MergeFreqs, MaxNewPoints), att \in MergeDbs :
      LET new_points == [k \in 1..Len(freqs) |-> <<freqs[k], att>>] IN
        /\ new_points # <<>>
        /\ merges < MaxMerges
        /\ merges' = merges + 1
        /\ loadResult' = NoLoad
        /\ LET existing == IF compFileExists THEN read_csv(compFileLines)
                           ELSE [raised |-> FALSE, df |-> <<>>]
               history == [op |-> "update", raised |-> existing.raised,
                           existed |-> compFileExists, before |-> compFileLines,
                           new_points |-> new_points, prev |-> lastMerge.new_points]
           IN  IF existing.raised
               THEN /\ lastMerge' = history
                    /\ UNCHANGED <<compFileExists, compFileLines>>
               ELSE \E sorted \in sort_values(Evict(existing.df, new_points, 1) \o new_points) :
                        /\ compFileExists' = TRUE
                        /\ compFileLines' =
                               <<CommentLine>> \o [k \in 1..Len(sorted) |-> PointLine(sorted[k])]
                        /\ lastMerge' = history
        /\ UNCHANGED <<logVars, sepVars, lookupVars>>
        /\ UNCHANGED <<rangeVars, searchVars, waitVars, fetchVars>>

\* spectrum_analyzer.main(): comp_freqs, comp_dbs = load_compensation_file(...)
LoadCompensationFile ==
    /\ ~loadResult.done
    /\ loadResult' = [done |-> TRUE,
                      table |-> load_compensation_file(compFileExists, compFileLines)]
    /\ UNCHANGED <<compFileExists, compFileLines, merges, lastMerge>>
    /\ UNCHANGED <<logVars, sepVars, lookupVars>>
    /\ UNCHANGED <<rangeVars, searchVars, waitVars, fetchVars>>

NextMerge == UpdateCompensationFile \/ LoadCompensationFile

SpecMerge == InitMerge /\ [][NextMerge]_vars

---------------------------------------------------------------------------
(* update_compensation_file: properties *)

\* The last call was an update_compensation_file that persisted a table.
Persisted == lastMerge.op = "update" /\ ~lastMerge.raised

IsPointLine(line) == IsContentLine(line) /\ ParseInt(line[1]).ok

\* The points a compensation file holds, in file order.
PointsOf(lines) == ParsePoints(SelectSeq(lines, IsPointLine))

\* C10 as stated: in every table update_compensation_file persists, no two
\* distinct points have frequencies within the +-10% band of one another.
C10_NoTwoPointsInBand ==
    Persisted =>
        LET table == PointsOf(compFileLines)
        IN  \A i, j \in 1..Len(table) :
                (i # j /\ table[i] # table[j]) => ~InBand(table[i][1], table[j][1])

\* C10 as amended: in every table update_compensation_file persists, no
\* point kept from the table found in the file has its frequency within
\* the band [0.9 f, 1.1 f] of the frequency f of a point of the new batch:
\* every persisted point is a point of the batch or lies outside the band
\* of every point of the batch.  Points of one batch may lie within each
\* other's band.
C10_NoOldPointInBandOfNew ==
    Persisted =>
        LET table == PointsOf(compFileLines)
            new_points == lastMerge.new_points
        IN  \A k \in 1..Len(table) :
                \/ \E i \in 1..Len(new_points) : table[k] = new_points[i]
                \/ \A i \in 1..Len(new_points) :
                       \/ 10 * table[k][1] < 9 * new_points[i][1]
                       \/ 10 * table[k][1] > 11 * new_points[i][1]

\* A point the file held lies in the band of a new point and is gone, while
\* another point the file held is kept.
C10_Witness ==
    /\ Persisted
    /\ LET table == PointsOf(compFileLines)
           old == PointsOf(lastMerge.before)
           new_points == lastMerge.new_points
       IN  /\ \E k \in 1..Len(old) :
                  /\ \E i \in 1..Len(new_points) : InBand(old[k][1], new_points[i][1])
                  /\ \A j \in 1..Len(table) : table[j] # old[k]
           /\ \E k \in 1..Len(old) :
                  /\ \A i \in 1..Len(new_points) : old[k] # new_points[i]
                  /\ \E j \in 1..Len(table) : table[j] = old[k]

\* The table update_compensation_file held after reading the file (the
\* empty table when the file did not exist).
ExistingTable ==
    IF lastMerge.existed THEN read_csv(lastMerge.before).df ELSE <<>>

Count(seq, p) == Cardinality({k \in 1..Len(seq) : seq[k] = p})

PointSet(seq) == {seq[k] : k \in 1..Len(seq)}

\* C11: for one update_compensation_file call with existing table E (the
\* table as read from the file) and new points N, the persisted table is
\* exactly the points of E whose frequency is in the inclusive band
\* [0.9 f, 1.1 f] of no new frequency f, together with every point of N
\* (each as often as it occurs), in ascending order of frequency, below the
\* fixed comment line.
C11_PersistedTable ==
    Persisted =>
        LET E == ExistingTable
            N == lastMerge.new_points
            table == PointsOf(compFileLines)
            Survives(point) ==
                \A i \in 1..Len(N) :
                    \/ 10 * point[1] < 9 * N[i][1]
                    \/ 10 * point[1] > 11 * N[i][1]
            expected == SelectSeq(E, Survives) \o N
        IN  /\ compFileLines[1] = CommentLine
            /\ Len(compFileLines) = 1 + Len(table)
            /\ Len(table) = Len(expected)
            /\ \A point \in PointSet(table) \cup PointSet(expected) :
                   Count(table, point) = Count(expected, point)
            /\ \A k \in 1..(Len(table) - 1) : table[k][1] <= table[k + 1][1]

\* Two new points given in descending order, the lower within the band of
\* the higher; an existing point exactly at 0.9 f of a new f is evicted, an
\* existing point outside both bands is kept, and both new points persist.
C11_Witness ==
    /\ Persisted
    /\ LET E == ExistingTable
           N == lastMerge.new_points
           table == PointsOf(compFileLines)
       IN  /\ Len(N) = 2
           /\ N[1][1] > N[2][1]
           /\ InBand(N[2][1], N[1][1])
           /\ \E k \in 1..Len(E) :
                  /\ 10 * E[k][1] = 9 * N[2][1]
                  /\ E[k] \notin PointSet(table)
           /\ \E k \in 1..Len(E) : E[k] \notin PointSet(N) /\ E[k] \in PointSet(table)
           /\ PointSet(N) \subseteq PointSet(table)

\* C12: when the same single new point is applied by two successive
\* update_compensation_file invocations on the same file, the table the
\* second persists holds exactly one point whose frequency is within +-10%
\* of that point's frequency, whatever table the file held at first.
C12_RepeatedPointOnce ==
    (Persisted /\ Len(lastMerge.new_points) = 1 /\ lastMerge.prev = lastMerge.new_points) =>
        LET f == lastMerge.new_points[1][1]
            table == PointsOf(compFileLines)
        IN  Cardinality({k \in 1..Len(table) :
                            10 * table[k][1] >= 9 * f /\ 10 * table[k][1] <= 11 * f}) = 1

\* The second invocation read the point the first one had persisted, and
\* the table it persists holds another point besides.
C12_Witness ==
    /\ Persisted
    /\ merges = 2
    /\ Len(lastMerge.new_points) = 1
    /\ lastMerge.prev = lastMerge.new_points
    /\ lastMerge.new_points[1] \in PointSet(ExistingTable)
    /\ Len(PointsOf(compFileLines)) >= 2

\* C15: when an update_compensation_file invocation reads the file an
\* earlier invocation wrote (comment line, then data rows), every point the
\* file held whose frequency is outside the +-10% band of every new point
\* is still in the file afterwards.
C15_OldPointsSurvive ==
    (/\ Persisted
     /\ lastMerge.prev # <<>>
     /\ lastMerge.before # <<>>
     /\ lastMerge.before[1] = CommentLine) =>
        LET old == PointsOf(lastMerge.before)
            N == lastMerge.new_points
            table == PointsOf(compFileLines)
        IN  \A k \in 1..Len(old) :
                (\A i \in 1..Len(N) : ~InBand(old[k][1], N[i][1]))
                    => old[k] \in PointSet(table)

\* C19: load_compensation_file on a file update_compensation_file has
\* written returns exactly the persisted points, in ascending order of
\* frequency, and not the (None, None) pair.
C19_RoundTrip ==
    (loadResult.done /\ Persisted) =>
        LET table == PointsOf(compFileLines)
        IN  /\ Len(table) >= 1
            /\ loadResult.table.loaded
            /\ loadResult.table.freqs = [k \in 1..Len(table) |-> table[k][1]]
            /\ loadResult.table.dbs = [k \in 1..Len(table) |-> table[k][2]]
            /\ IsAscending(loadResult.table.freqs)

---------------------------------------------------------------------------
(* generate_compensation.py: generate_frequency_ranges *)

\* The number of spans after which the model stops following the loop.
MaxSpans == 5

\* Python's min(a, b)
Min(a, b) == IF b < a THEN b ELSE a

SpanEndUncapped(span_start, end) == span_start * 10

\* span_end = min(span_start * 10, end_freq)
SpanEnd(span_start, end) == Min(span_start * 10, end)

\* Arguments in units of 10 kHz: negative, zero, 10 kHz, 1 MHz, 10 MHz, ...
RangeStarts == {-1, 0, 1, 100, 101, 1000}

RangeEnds == {-1, 0, 1, 10, 11, 100, 1000, 1010, 5000}

InitRanges ==
    /\ start_freq \in RangeStarts
    /\ end_freq \in RangeEnds
    /\ current_freq = 0
    /\ ranges = <<>>
    /\ rangesPc = "call"
    /\ IdleLog
    /\ IdleSep
    /\ IdleLookup
    /\ IdleMerge
    /\ IdleSearch
    /\ IdleWait
    /\ IdleFetch

\* "if start_freq >= end_freq: return []", else the two assignments before
\* the loop
RangesEnter ==
    /\ rangesPc = "call"
    /\ ranges' = <<>>
    /\ IF start_freq >= end_freq
       THEN rangesPc' = "returned" /\ UNCHANGED current_freq
       ELSE rangesPc' = "loop" /\ current_freq' = start_freq
    /\ UNCHANGED <<start_freq, end_freq>>
    /\ UNCHANGED <<logVars, sepVars, lookupVars, mergeVars, searchVars, waitVars, fetchVars>>

\* One pass of "while current_freq < end_freq"
RangesIterate ==
    /\ rangesPc = "loop"
    /\ current_freq < end_freq
    /\ Len(ranges) < MaxSpans
    /\ LET span_start == current_freq
           span_end == SpanEnd(span_start, end_freq)
       IN  /\ ranges' = Append(ranges, <<span_start, span_end>>)
           /\ current_freq' = span_end
    /\ UNCHANGED <<start_freq, end_freq, rangesPc>>
    /\ UNCHANGED <<logVars, sepVars, lookupVars, mergeVars, searchVars, waitVars, fetchVars>>

\* The loop condition fails: "return ranges"
RangesReturn ==
    /\ rangesPc = "loop"
    /\ ~(current_freq < end_freq)
    /\ rangesPc' = "returned"
    /\ UNCHANGED <<start_freq, end_freq, current_freq, ranges>>
    /\ UNCHANGED <<logVars, sepVars, lookupVars, mergeVars, searchVars, waitVars, fetchVars>>

NextRanges == RangesEnter \/ RangesIterate \/ RangesReturn

SpecRanges == InitRanges /\ [][NextRanges]_vars

\* C13: when generate_frequency_ranges returns for start < end, the list is
\* not empty, its first span starts at start, each span starts where the
\* one before it ended, every span has subStart < subEnd and
\* subEnd <= 10 * subStart, and the last span ends at end; for start >= end
\* it returns the empty list.
C13_Spans ==
    rangesPc = "returned" =>
        IF start_freq >= end_freq THEN ranges = <<>>
        ELSE /\ ranges # <<>>
             /\ ranges[1][1] = start_freq
             /\ \A k \in 1..(Len(ranges) - 1) : ranges[k + 1][1] = ranges[k][2]
             /\ \A k \in 1..Len(ranges) :
                    /\ ranges[k][1] < ranges[k][2]
                    /\ ranges[k][2] <= 10 * ranges[k][1]
             /\ ranges[Len(ranges)][2] = end_freq

\* The spec's example: (1e6, 50e6) gives [(1e6, 10e6), (10e6, 50e6)].
C13_Witness ==
    /\ rangesPc = "returned"
    /\ start_freq = 100
    /\ end_freq = 5000
    /\ ranges = << <<100, 1000>>, <<1000, 5000>> >>

---------------------------------------------------------------------------
(* analysis.py: get_search_range *)

\* 1e6, 10e6, 500e6 and 3e9 Hz in units of 10 kHz
SearchThresholds == <<100, 1000, 50000, 300000>>

\* 10e6, 100e6, 2.5e9, 10e9 and 26e9 Hz in units of 10 kHz
SearchCeilings == <<1000, 10000, 250000, 1000000, 2600000>>

AtOrBelow(freq, threshold) == freq <= threshold

\* "carrier_freq_hz < threshold"
Below(freq, threshold) == freq < threshold

get_search_range(freq) ==
    IF Below(freq, SearchThresholds[1]) THEN SearchCeilings[1]
    ELSE IF Below(freq, SearchThresholds[2]) THEN SearchCeilings[2]
    ELSE IF Below(freq, SearchThresholds[3]) THEN SearchCeilings[3]
    ELSE IF Below(freq, SearchThresholds[4]) THEN SearchCeilings[4]
    ELSE SearchCeilings[5]

\* How far around each threshold the carrier frequencies are taken.
MaxMargin == 7

\* Carrier frequencies: negative, zero, the spec's examples 50 MHz and
\* 5 GHz, and every multiple of 10 kHz close to a threshold.
SearchCarriers ==
    {-1, 0, 5000, 500000} \cup
    UNION { (SearchThresholds[k] - MaxMargin)..(SearchThresholds[k] + MaxMargin) : k \in 1..4 }

InitSearch ==
    /\ carrier_freq_hz \in SearchCarriers
    /\ searchResult = NoSearch
    /\ IdleLog
    /\ IdleSep
    /\ IdleLookup
    /\ IdleMerge
    /\ IdleRanges
    /\ IdleWait
    /\ IdleFetch

GetSearchRange ==
    /\ ~searchResult.done
    /\ searchResult' = [done |-> TRUE, value |-> get_search_range(carrier_freq_hz)]
    /\ UNCHANGED carrier_freq_hz
    /\ UNCHANGED <<logVars, sepVars, lookupVars, mergeVars, rangeVars, waitVars, fetchVars>>

NextSearch == GetSearchRange

SpecSearch == InitSearch /\ [][NextSearch]_vars

\* C14: get_search_range returns 10e6 for carrier < 1e6, 100e6 for
\* 1e6 <= carrier < 10e6, 2.5e9 for 10e6 <= carrier < 500e6, 10e9 for
\* 500e6 <= carrier < 3e9 and 26e9 for carrier >= 3e9 (in units of 10 kHz);
\* every carrier frequency gets a value, a threshold that of the higher bucket.
C14_StepFunction ==
    searchResult.done =>
        LET f == carrier_freq_hz
            v == searchResult.value
        IN  /\ f < 100 => v = 1000
            /\ (100 <= f /\ f < 1000) => v = 10000
            /\ (1000 <= f /\ f < 50000) => v = 250000
            /\ (50000 <= f /\ f < 300000) => v = 1000000
            /\ f >= 300000 => v = 2600000
            /\ v \in {1000, 10000, 250000, 1000000, 2600000}

\* The threshold 3e9 itself is in the highest bucket.
C14_Witness ==
    /\ searchResult.done
    /\ carrier_freq_hz = 300000
    /\ searchResult.value = 2600000

---------------------------------------------------------------------------
(* hp8593em.py: _wait_for_measurement *)

\* Times are whole seconds.

\* "timeout=600"
DefaultTimeout == 600

\* "wait_interval = 2"
WaitInterval == 2

\* "time.sleep(wait_interval * 5)"
LongSleep == WaitInterval * 5

\* "self.instrument.timeout = 10000" (ms): a query that gets no answer
\* raises VisaIOError after this long
QueryTimeout == 10

\* The largest signal count the instrument reports.
MaxSignals == 2

WaitTimeouts == {0, 25, DefaultTimeout}

\* What self.query("SIGLEN?") followed by int() can come to: a count
\* (negative, zero or positive), a VisaIOError of the transport, or a
\* ValueError of int() on text that is not an integer.
Reply(kind, count) == [kind |-> kind, count |-> count]

Replies ==
    {Reply("count", c) : c \in -1..MaxSignals}
        \cup {Reply("VisaIOError", 0), Reply("ValueError", 0)}

\* The seconds a query takes: an answer within a second, an error at once
\* or when the transport's timeout expires.
ReplyDurations(reply) ==
    IF reply.kind = "VisaIOError" THEN {0, QueryTimeout} ELSE {0, 1}

IsPositive(reply) == reply.kind = "count" /\ reply.count > 0

WaitOutcomeUncaught(reply) ==
    IF IsPositive(reply) THEN "return"
    ELSE IF reply.kind = "count" THEN "sleep_long"
    ELSE IF reply.kind = "VisaIOError" THEN "sleep_short"
    ELSE "raise"

\* The body of the loop after the query: return on a positive count, the
\* long sleep on any other count, the short sleep in both except clauses;
\* any other exception would leave the function.
WaitOutcome(reply) ==
    IF IsPositive(reply) THEN "return"
    ELSE IF reply.kind = "count" THEN "sleep_long"
    ELSE IF reply.kind = "VisaIOError" THEN "sleep_short"
    ELSE IF reply.kind = "ValueError" THEN "sleep_short"
    ELSE "raise"

InitWait ==
    /\ waitTimeout \in WaitTimeouts
    /\ waitElapsed = 0
    /\ waitPc = "loop"
    /\ waitResult = -1
    /\ waitReply = NoReply
    /\ waitPolledAt = -1
    /\ IdleLog
    /\ IdleSep
    /\ IdleLookup
    /\ IdleMerge
    /\ IdleRanges
    /\ IdleSearch
    /\ IdleFetch

\* One pass of "while time.time() - start_time < timeout": the query, and
\* what follows from its answer.
WaitPoll ==
    /\ waitPc = "loop"
    /\ waitElapsed < waitTimeout
    /\ \E reply \in Replies :
         \E d \in ReplyDurations(reply) :
           LET outcome == WaitOutcome(reply)
           IN  /\ waitReply' = reply
               /\ waitPolledAt' = waitElapsed
               /\ waitElapsed' = waitElapsed + d
                      + (IF outcome = "sleep_long" THEN LongSleep
                         ELSE IF outcome = "sleep_short" THEN WaitInterval
                         ELSE 0)
               /\ waitPc' = (IF outcome = "return" THEN "returned"
                             ELSE IF outcome = "raise" THEN "raised"
                             ELSE "loop")
               /\ waitResult' = (IF outcome = "return" THEN reply.count ELSE waitResult)
    /\ UNCHANGED waitTimeout
    /\ UNCHANGED <<logVars, sepVars, lookupVars, mergeVars, rangeVars, searchVars, fetchVars>>

\* The loop condition fails: "return 0"
WaitGiveUp ==
    /\ waitPc = "loop"
    /\ ~(waitElapsed < waitTimeout)
    /\ waitPc' = "returned"
    /\ waitResult' = 0
    /\ UNCHANGED <<waitTimeout, waitElapsed, waitReply, waitPolledAt>>
    /\ UNCHANGED <<logVars, sepVars, lookupVars, mergeVars, rangeVars, searchVars, fetchVars>>

NextWait == WaitPoll \/ WaitGiveUp

\* The thread that called _wait_for_measurement keeps running: every query
\* returns or fails, and every sleep ends.
SpecWait == InitWait /\ [][NextWait]_vars /\ WF_vars(NextWait)

C16_Safety ==
    /\ waitPc # "raised"
    /\ waitPolledAt < waitTimeout
    /\ waitPc = "loop" =>
           /\ ~IsPositive(waitReply)
           /\ waitReply.kind = "count" => waitElapsed >= waitPolledAt + 10
           /\ waitReply.kind \in {"VisaIOError", "ValueError"}
                  => waitElapsed >= waitPolledAt + 2
    /\ waitPc = "returned" =>
           \/ /\ waitResult > 0
              /\ waitReply = Reply("count", waitResult)
           \/ /\ waitResult = 0
              /\ ~IsPositive(waitReply)
              /\ waitElapsed >= waitTimeout

\* C16: _wait_for_measurement never raises on a zero count, a VisaIOError
\* or an unparsable reply but sleeps and polls again; it starts no poll once
\* the elapsed time has reached the timeout; it returns either the first
\* positive count a SIGLEN? query reports, at once, or 0 after the timeout
\* has elapsed; and, the clock advancing, it eventually returns.
C16_BoundedPoll == []C16_Safety /\ <>(waitPc = "returned")

\* Gave up after the default 600 s, the last reply being unparsable.
C16_Witness ==
    /\ waitPc = "returned"
    /\ waitTimeout = 600
    /\ waitResult = 0
    /\ waitReply.kind = "ValueError"
    /\ waitElapsed >= 600

---------------------------------------------------------------------------
(* hp8593em.py: _fetch_signal_data *)

FetchTimeouts == {0, 5, DefaultTimeout}

\* The seconds a write or a query takes: done within a second; failing at
\* once or when the transport's timeout expires.
TransferDurations(failed) == IF failed THEN {0, QueryTimeout} ELSE {0, 1}

SkipPosition(pos) == pos + 1

\* "except visa.errors.VisaIOError": i is left as it is
RetryPosition(pos) == pos

InitFetch ==
    /\ num_signals \in 0..MaxSignals
    /\ fetchTimeout \in FetchTimeouts
    /\ fetchElapsed = 0
    /\ fetchPc = "loop"
    /\ fetchI = 1
    /\ signals = <<>>
    /\ sigpos = 0
    /\ fetchFailedAt = {}
    /\ IdleLog
    /\ IdleSep
    /\ IdleLookup
    /\ IdleMerge
    /\ IdleRanges
    /\ IdleSearch
    /\ IdleWait

\* The loop condition holds and self.write(f"SIGPOS {i}") is made: it
\* succeeds, or raises VisaIOError (the instrument may or may not have
\* taken the command) and the except clause sleeps.
FetchWrite ==
    /\ fetchPc = "loop"
    /\ fetchI <= num_signals
    /\ fetchElapsed < fetchTimeout
    /\ \E failed \in BOOLEAN :
         \E d \in TransferDurations(failed) :
           IF failed
           THEN /\ sigpos' \in {sigpos, fetchI}
                /\ fetchFailedAt' = fetchFailedAt \cup {fetchI}
                /\ fetchI' = RetryPosition(fetchI)
                /\ fetchElapsed' = fetchElapsed + d + WaitInterval
                /\ UNCHANGED fetchPc
           ELSE /\ sigpos' = fetchI
                /\ fetchPc' = "query"
                /\ fetchElapsed' = fetchElapsed + d
                /\ UNCHANGED <<fetchI, fetchFailedAt>>
    /\ UNCHANGED <<num_signals, fetchTimeout, signals>>
    /\ UNCHANGED <<logVars, sepVars, lookupVars, mergeVars, rangeVars, searchVars, waitVars>>

\* signals[i] = self.query("SIGRESULT?"); i += 1, or VisaIOError and the
\* except clause.  The answer is that of the position the instrument holds.
FetchQuery ==
    /\ fetchPc = "query"
    /\ \E failed \in BOOLEAN :
         \E d \in TransferDurations(failed) :
           IF failed
           THEN /\ fetchFailedAt' = fetchFailedAt \cup {fetchI}
                /\ fetchI' = RetryPosition(fetchI)
                /\ fetchElapsed' = fetchElapsed + d + WaitInterval
                /\ UNCHANGED signals
           ELSE /\ signals' = [k \in DOMAIN signals \cup {fetchI} |->
                                  IF k = fetchI THEN sigpos ELSE signals[k]]
                /\ fetchI' = fetchI + 1
                /\ fetchElapsed' = fetchElapsed + d
                /\ UNCHANGED fetchFailedAt
    /\ fetchPc' = "loop"
    /\ UNCHANGED <<num_signals, fetchTimeout, sigpos>>
    /\ UNCHANGED <<logVars, sepVars, lookupVars, mergeVars, rangeVars, searchVars, waitVars>>

\* The loop condition fails: "return signals"
FetchReturn ==
    /\ fetchPc = "loop"
    /\ ~(fetchI <= num_signals /\ fetchElapsed < fetchTimeout)
    /\ fetchPc' = "returned"
    /\ UNCHANGED <<num_signals, fetchTimeout, fetchElapsed, fetchI, signals, sigpos,
                   fetchFailedAt>>
    /\ UNCHANGED <<logVars, sepVars, lookupVars, mergeVars, rangeVars, searchVars, waitVars>>

NextFetch == FetchWrite \/ FetchQuery \/ FetchReturn

SpecFetch == InitFetch /\ [][NextFetch]_vars

\* C17: at every moment the keys collected by _fetch_signal_data are exactly
\* 1..k for some k <= num_signals, each key holding the answer for its own
\* position (the SIGPOS write for i precedes the SIGRESULT? query stored at
\* i); a position at which a VisaIOError was raised is not skipped; on
\* return k = num_signals unless the timeout has elapsed, and then the keys
\* are 1..k still.
C17_SequentialFetch ==
    LET k == Cardinality(DOMAIN signals)
    IN  /\ DOMAIN signals = 1..k
        /\ k <= num_signals
        /\ k = fetchI - 1
        /\ \A pos \in 1..k : signals[pos] = pos
        /\ \A pos \in fetchFailedAt : pos \in DOMAIN signals \/ pos = fetchI
        /\ fetchPc = "query" => sigpos = fetchI
        /\ fetchPc = "returned" => (k = num_signals \/ fetchElapsed >= fetchTimeout)

\* Every position was fetched although a VisaIOError was raised at each.
C17_Witness ==
    /\ fetchPc = "returned"
    /\ num_signals = 2
    /\ fetchFailedAt = {1, 2}
    /\ DOMAIN signals = {1, 2}

===========================================================================
